---- MODULE Spec2Model ----
(***************************************************************************)
(* Model of the M3U8 download pipeline of fuliji/fuliji/pipelines.py       *)
(* (class M3U8Pipeline) and of its download ledger,                        *)
(* fuliji/fuliji/database.py (class DownloadDatabase).                     *)
(*                                                                         *)
(* Source read as it stands.  M3U8Pipeline calls a few members that no     *)
(* file of the sources at hand defines (_is_similar_url, db.is_downloaded, *)
(* db.mark_as_downloaded, download_m3u8, sanitize_filename, download_path, *)
(* download_tasks).  Those are modelled from the design document and are   *)
(* marked as such where they are defined; everything else follows the      *)
(* source line by line.                                                    *)
(***************************************************************************)
EXTENDS Integers, Sequences, FiniteSets, TLC

(***************************************************************************)
(* Bounds of the model.                                                    *)
(***************************************************************************)
MaxSubmits == 2          \* process_item calls in one run
MaxJobs == 3             \* jobs handed to the pool in one run
MaxConcurrent == 2       \* configured MAX_CONCURRENT_DOWNLOADS of the run
MaxRowId == 2            \* rows ever inserted into table downloads

(***************************************************************************)
(* Program constants.                                                      *)
(***************************************************************************)
RunMatchLen == 8         \* re.findall(r'[a-zA-Z0-9]{8,}')
RunKeyLen == 12          \* len(longest_match) >= 12
PathSegLen == 6          \* r'/([a-zA-Z0-9]{6,})/'
StemLen == 6             \* len(filename) >= 6

(***************************************************************************)
(* URLs.  A URL is a string; Tokens(u) is its text cut into maximal        *)
(* alphanumeric runs (k = "an") and single other characters (k = "sep"),   *)
(* each with its length, which is all the regular expressions of           *)
(* _extract_url_key look at.                                               *)
(***************************************************************************)
An(s) == [k |-> "an", s |-> s, n |-> Len(s)]
Sep(s) == [k |-> "sep", s |-> s, n |-> 1]

UA == "https://x/abc123456789/master.m3u8"
UB == "https://x/abc123456789/alt.m3u8"
UC == "https://y/abc123456789/zzzzzzzzzzzzz.m3u8"
UD == "https://x/vid001/a.m3u8"
UE == "https://x/v/playlist.m3u8"
UF == "http://h/a.m3u8"

Prefix(scheme, host) == <<An(scheme), Sep(":"), Sep("/"), Sep("/"), An(host), Sep("/")>>
Ext == <<Sep("."), An("m3u8")>>

Tokens(u) ==
    CASE u = UA -> Prefix("https", "x") \o <<An("abc123456789"), Sep("/"), An("master")>> \o Ext
      [] u = UB -> Prefix("https", "x") \o <<An("abc123456789"), Sep("/"), An("alt")>> \o Ext
      [] u = UC -> Prefix("https", "y") \o <<An("abc123456789"), Sep("/"), An("zzzzzzzzzzzzz")>> \o Ext
      [] u = UD -> Prefix("https", "x") \o <<An("vid001"), Sep("/"), An("a")>> \o Ext
      [] u = UE -> Prefix("https", "x") \o <<An("v"), Sep("/"), An("playlist")>> \o Ext
      [] u = UF -> Prefix("http", "h") \o <<An("a")>> \o Ext
      [] u = "" -> <<>>

AllURLs == {UA, UB, UC, UD, UE, UF, ""}

RECURSIVE Text(_)
Text(toks) == IF toks = <<>> THEN "" ELSE Head(toks).s \o Text(Tail(toks))

RECURSIVE TextLen(_)
TextLen(toks) == IF toks = <<>> THEN 0 ELSE Head(toks).n + TextLen(Tail(toks))

\* max(matches, key=len): the first of the longest matches
RECURSIVE Longest(_)
Longest(ms) ==
    IF Len(ms) = 1 THEN ms[1]
    ELSE LET r == Longest(Tail(ms))
         IN  IF ms[1].n >= r.n THEN ms[1] ELSE r

\* re.findall(r'[a-zA-Z0-9]{8,}', url)
RunMatches(toks) == SelectSeq(toks, LAMBDA t : t.k = "an" /\ t.n >= RunMatchLen)

\* re.findall(r'/([a-zA-Z0-9]{6,})/', url): non-overlapping, left to right
RECURSIVE PathMatches(_, _)
PathMatches(toks, i) ==
    IF i + 2 > Len(toks) THEN <<>>
    ELSE IF /\ toks[i] = Sep("/")
            /\ toks[i + 1].k = "an" /\ toks[i + 1].n >= PathSegLen
            /\ toks[i + 2] = Sep("/")
         THEN <<toks[i + 1]>> \o PathMatches(toks, i + 3)
         ELSE PathMatches(toks, i + 1)

\* re.search(r'/([^/]+)\.m3u8', url): the leftmost '/', then the longest run
\* of non-'/' characters that is followed by ".m3u8"
IsExtAt(toks, j) ==
    /\ j + 1 <= Len(toks)
    /\ toks[j] = Sep(".")
    /\ toks[j + 1] = An("m3u8")

StemEnds(toks, i) ==
    {j \in (i + 2)..Len(toks) :
        /\ IsExtAt(toks, j)
        /\ \A m \in (i + 1)..(j + 1) : toks[m] # Sep("/")}

StemStarts(toks) == {i \in 1..Len(toks) : toks[i] = Sep("/") /\ StemEnds(toks, i) # {}}

Min(S) == CHOOSE x \in S : \A y \in S : x <= y
Max(S) == CHOOSE x \in S : \A y \in S : x >= y

FilenameStem(toks) ==
    LET i == Min(StemStarts(toks))
        j == Max(StemEnds(toks, i))
    IN  SubSeq(toks, i + 1, j - 1)

\* hashlib.md5(url.encode()).hexdigest(): one digest per text, taken to be
\* free of collisions and never equal to a run of the URL texts
Md5(s) == "md5(" \o s \o ")"

BrokenExtractKey(toks) == Md5(Text(toks))
_extract_url_key(toks) ==
    LET ms == RunMatches(toks)
        ps == PathMatches(toks, 1)
    IN  IF ms # <<>> /\ Longest(ms).n >= RunKeyLen THEN Longest(ms).s
        ELSE IF ps # <<>> THEN ps[Len(ps)].s
        ELSE IF StemStarts(toks) # {} /\ TextLen(FilenameStem(toks)) >= StemLen
             THEN Text(FilenameStem(toks))
        ELSE Md5(Text(toks))

KeyTable == [u \in AllURLs |-> _extract_url_key(Tokens(u))]
UrlKey(u) == KeyTable[u]

(***************************************************************************)
(* The run's universe: the URLs and titles a producer submits, and the     *)
(* items it yields (a single string in item['m3u8_url'] is the list of     *)
(* that one string, process_item lines 229-232).                           *)
(***************************************************************************)
URLS == {UA, UB, UC, UD, ""}
Item(urls, title) == [m3u8_url |-> urls, title |-> title]
Items ==
    { Item(<<UA>>, "T1"), Item(<<UA>>, "T2"), Item(<<UB>>, "T1"), Item(<<UD>>, "T2"),
      Item(<<UD>>, "T1"), Item(<<UA, UA>>, "T1"), Item(<<UA, UB>>, "T1"),
      Item(<<UA, UC>>, "T1") }

Range(f) == {f[i] : i \in DOMAIN f}

(***************************************************************************)
(* The entries of a list as a producer may hand them over: a URL with      *)
(* white space around it, the empty string, a string of white space only,  *)
(* and a value that is no string (None, written here by its repr between   *)
(* angle brackets, a text no URL has).                                     *)
(***************************************************************************)
None == "<None>"
\* the texts of the model that have no white space at either end
Bare == AllURLs \cup {"T1", "T2", "#T2", "# done"}

\* isinstance(url, str)
IsStr(e) == e # None
\* the truth value of a str: it is not empty
Truthy(e) == e # ""

\* str.strip(): the text between the leading and the trailing white space
strip(e) ==
    LET bodies == {b \in Bare : \E l, r \in {"", " ", "\n"} : e = l \o b \o r}
    IN  IF bodies = {} THEN e
        ELSE CHOOSE b \in bodies : \A c \in bodies : Len(c) <= Len(b)

RawItems ==
    { Item(<<" " \o UA \o "\n", UA, UB>>, "T1"), Item(<<"", None, UD>>, "T2"),
      Item(<<" \n", UD>>, "T1"), Item(<<UD, " " \o UD \o "\n">>, "T2"),
      Item(<<UA, UC>>, "T1") }

(***************************************************************************)
(* Files.  A final file is named by the cleaned title and the counter      *)
(* generate_unique_filename appends (0: no suffix); all jobs of the model  *)
(* are of one site, so of one directory.                                   *)
(***************************************************************************)
NULL == [t |-> "NULL", n |-> 0]
Path(title, n) == [t |-> title, n |-> n]

(***************************************************************************)
(* State.                                                                  *)
(***************************************************************************)
VARIABLES
    ledger,             \* table downloads: url_hash -> row
    rowids,             \* table downloads: the id of each row, and the last id given
    disk,               \* the final files that exist
    outfiles,           \* <<URL, title>> whose output_file (line 349) exists
    temps,              \* the non-empty files that exist in temp_store
    processed_urls,     \* self.processed_urls
    downloading_urls,   \* self.downloading_urls
    excluded_titles,    \* self.excluded_titles
    chigua_file,        \* utils/51chigua.txt: its lines
    active_downloads,   \* self.active_downloads
    shutdown_notified,  \* self.shutdown_notified
    lock,               \* self.lock: the thread that holds it
    monitor,            \* the thread of _monitor_downloads: running or not
    jobs,               \* work items handed to self.download_executor, in order
    pool_shutdown,      \* download_executor.shutdown() has been called
    sub,                \* the threads running process_item: their locals
    drain,              \* the caller of close_spider: its position
    cfg,                \* the run: who calls the pipeline, how fetches end, old files
    submits,            \* process_item calls so far
    admitted,           \* history: per URL, jobs handed to the pool
    exec_calls,         \* history: URLs the Fetch Executor was invoked for
    last,               \* history: the verdict of the latest admission decision
    resumable,          \* history: URLs completed, file on disk, at start
    lastop              \* history: the latest direct ledger call and its result

dbVars == <<ledger, rowids, disk, outfiles, temps>>
pipeVars == <<processed_urls, downloading_urls, excluded_titles, chigua_file,
              active_downloads, shutdown_notified>>
poolVars == <<jobs, pool_shutdown>>
histVars == <<admitted, exec_calls, last, resumable, lastop>>
vars == <<ledger, rowids, disk, outfiles, temps, processed_urls, downloading_urls, excluded_titles,
          chigua_file, active_downloads, shutdown_notified, lock, monitor, jobs, pool_shutdown,
          sub, drain, cfg,
          submits, admitted, exec_calls, last, resumable, lastop>>

(***************************************************************************)
(* DownloadDatabase.  get_url_hash is the MD5 digest of the URL; a row of   *)
(* the table is found by its url_hash.                                     *)
(***************************************************************************)
HashTable == [u \in AllURLs |-> Md5(u)]
get_url_hash(url) == HashTable[url]

Row(status, file_path, file_size, temp_file_path) ==
    [status |-> status, file_path |-> file_path, file_size |-> file_size,
     temp_file_path |-> temp_file_path]

HasRow(L, url) == get_url_hash(url) \in DOMAIN L

\* get_temp_file_path, lines 113-130
get_temp_file_path(L, url) ==
    IF HasRow(L, url) THEN L[get_url_hash(url)].temp_file_path ELSE NULL

\* The rows as they lie in the table: id INTEGER PRIMARY KEY AUTOINCREMENT
\* gives every inserted row the next id; url_hash is UNIQUE, so INSERT OR
\* REPLACE first deletes the row that holds the url_hash.
NoRows == [seq |-> 0, of |-> [i \in {} |-> ""]]

RowsOf(R, h) == {i \in DOMAIN R.of : R.of[i] = h}

PlainInsert(R, h) ==
    [seq |-> R.seq + 1,
     of |-> [i \in DOMAIN R.of \cup {R.seq + 1} |-> IF i = R.seq + 1 THEN h ELSE R.of[i]]]
insert_or_replace(R, h) ==
    [seq |-> R.seq + 1,
     of |-> [i \in (DOMAIN R.of \ RowsOf(R, h)) \cup {R.seq + 1} |->
                IF i = R.seq + 1 THEN h ELSE R.of[i]]]

\* DELETE FROM downloads: the rows go, the ids given stay given
delete_all(R) == [seq |-> R.seq, of |-> [i \in {} |-> ""]]

\* cursor.rowcount of the DELETE
deleted_count(R) == Cardinality(DOMAIN R.of)

\* INSERT OR REPLACE: the row of this url_hash is replaced as a whole, the
\* columns not named (file_path, file_size) fall back to NULL
add_download_record(L, url, temp_file_path) ==
    [h \in DOMAIN L \cup {get_url_hash(url)} |->
        IF h = get_url_hash(url) THEN Row("downloading", NULL, "NULL", temp_file_path)
        ELSE L[h]]

\* UPDATE ... WHERE url_hash = ?; file_path and file_size only when given
update_download_status(L, url, status, file_path, file_size) ==
    IF ~HasRow(L, url) THEN L
    ELSE [L EXCEPT ![get_url_hash(url)] =
            Row(status,
                IF file_path # NULL THEN file_path ELSE @.file_path,
                IF file_size # "NULL" THEN file_size ELSE @.file_size,
                @.temp_file_path)]

\* cursor.rowcount > 0
AlwaysFound(L, url) == TRUE
update_found(L, url) == HasRow(L, url)

\* is_download_completed: <<completed, file_path>> and the table afterwards
CompletedRow(L, url) == HasRow(L, url) /\ L[get_url_hash(url)].status = "completed"

FileThere(L, url, files) ==
    /\ L[get_url_hash(url)].file_path # NULL
    /\ L[get_url_hash(url)].file_path \in files

BlindLookup(L, url, files) == [completed |-> FALSE, file_path |-> NULL, table |-> L]
TrustingLookup(L, url, files) ==
    IF CompletedRow(L, url)
    THEN [completed |-> TRUE, file_path |-> L[get_url_hash(url)].file_path, table |-> L]
    ELSE [completed |-> FALSE, file_path |-> NULL, table |-> L]
is_download_completed(L, url, files) ==
    IF CompletedRow(L, url)
    THEN IF FileThere(L, url, files)
         THEN [completed |-> TRUE, file_path |-> L[get_url_hash(url)].file_path, table |-> L]
         ELSE [completed |-> FALSE, file_path |-> NULL,
               table |-> update_download_status(L, url, "missing_file", NULL, "NULL")]
    ELSE [completed |-> FALSE, file_path |-> NULL, table |-> L]

\* cleanup_missing_files: the completed rows with a file_path that is gone
MissingRows(L, files) ==
    {h \in DOMAIN L : /\ L[h].status = "completed"
                      /\ L[h].file_path # NULL
                      /\ L[h].file_path \notin files}

cleanup_missing_files(L, files) ==
    [h \in DOMAIN L |->
        IF h \in MissingRows(L, files) THEN [L[h] EXCEPT !.status = "missing_file"] ELSE L[h]]

EmptyTable == [h \in {} |-> Row("pending", NULL, "NULL", NULL)]

ResetKeepsRows(L) == L
reset_all_records(L) == EmptyTable

(***************************************************************************)
(* M3U8Pipeline: helpers.                                                  *)
(***************************************************************************)
\* str.startswith, over the texts that follow a first character in the model
startswith(s, prefix) == \E rest \in {"T1", "T2", " done", ""} : s = prefix \o rest

\* _load_excluded_titles, lines 153-173: the stripped lines of the file that
\* are not empty and do not start with #
_load_excluded_titles(file) ==
    {strip(file[i]) : i \in {j \in 1..Len(file) :
                                strip(file[j]) # "" /\ ~startswith(strip(file[j]), "#")}}

_is_title_excluded(title) == title \in excluded_titles

\* Tier 4 of the design document: the URL's structural key is compared with
\* the keys of the URLs seen in this run (_is_similar_url is not in the
\* sources at hand).
_is_similar_url(url) == \E v \in processed_urls : UrlKey(v) = UrlKey(url)

\* Tier 2 of the design document: the Ledger reports completed with an
\* existing file (db.is_downloaded is not in the sources at hand); answered
\* by the lookup of DownloadDatabase.
is_downloaded(L, url, files) == is_download_completed(L, url, files)

\* generate_unique_filename: the bare name if free, else the first free
\* counter from 1 up
generate_unique_filename(files, title) ==
    IF Path(title, 0) \notin files THEN Path(title, 0)
    ELSE Path(title, Min({n \in 1..(Cardinality(files) + 1) : Path(title, n) \notin files}))

Verdict(us, title, tier) == [us |-> us, title |-> title, tier |-> tier]

Idle == [pc |-> "idle", title |-> "", urls |-> <<>>, i |-> 0, unique |-> <<>>]

\* a work item of the pool: the arguments of the call, where the call stands,
\* the locals temp_file_path and final_file_path, whether ffmpeg is given
\* -y, how the fetch ended and what _download_video_async returned
Job(url, title) ==
    [url |-> url, title |-> title, st |-> "queued", temp |-> NULL, final |-> NULL,
     y |-> FALSE, wrote |-> FALSE, outcome |-> "none", result |-> "none"]

\* the loop of _deduplicate_urls moves on to the next URL; after the last one
\* process_item returns (no unique URL) or starts on the unique URLs
NextUrl(s, unique) ==
    IF s.i < Len(s.urls) THEN [s EXCEPT !.pc = "session", !.i = s.i + 1, !.unique = unique]
    ELSE IF unique = <<>> THEN Idle
    ELSE [s EXCEPT !.pc = "mark", !.i = 1, !.unique = unique]

\* the loop of process_item over unique_urls moves on
NextUnique(s) ==
    IF s.i < Len(s.unique) THEN [s EXCEPT !.pc = "mark", !.i = s.i + 1] ELSE Idle

(***************************************************************************)
(* self.lock, line 135.  The threads of the run are those that call        *)
(* process_item, the worker threads of the pool, one per job, the thread   *)
(* that calls close_spider and the monitor thread.  A `with self.lock`     *)
(* block is one step of the thread that holds the lock.  When cfg.locks is *)
(* set the run is looked at with the lock's acquisition and release as     *)
(* steps of their own; otherwise a block is entered, run and left at once. *)
(***************************************************************************)
SubId(t) == [kind |-> "sub", n |-> t]
JobId(k) == [kind |-> "job", n |-> k]
DrainId == [kind |-> "drain", n |-> 0]
MonitorId == [kind |-> "monitor", n |-> 0]

Free == [by |-> [kind |-> "free", n |-> 0], ran |-> FALSE]
Held(th, ran) == [by |-> th, ran |-> ran]

\* the body of a `with self.lock` block of thread th
InSection(th) ==
    /\ cfg.locks => lock = Held(th, FALSE)
    /\ lock' = IF cfg.locks THEN Held(th, TRUE) ELSE lock

(***************************************************************************)
(* process_item, lines 214-264: the title check, then the list is handed   *)
(* to _deduplicate_urls.                                                   *)
(***************************************************************************)
SkipTitleCheck(title) == FALSE
TitleRejects(title) == _is_title_excluded(title)

process_item(t, urls, title) ==
    /\ UNCHANGED <<lock, monitor>>
    /\ /\ t \in 1..cfg.threads
       /\ sub[t].pc = "idle"
       /\ submits < cfg.calls
       /\ drain.pc = "running" \/ cfg.late
       /\ submits' = submits + 1
       /\ IF TitleRejects(title)
          THEN /\ last' = Verdict(Range(urls), title, "title")
               /\ UNCHANGED sub
          ELSE /\ sub' = [sub EXCEPT ![t] = [pc |-> "session", title |-> title, urls |-> urls,
                                             i |-> 1, unique |-> <<>>]]
               /\ UNCHANGED last
       /\ UNCHANGED <<dbVars, pipeVars, poolVars, drain, cfg, admitted, exec_calls,
                      resumable, lastop>>

(***************************************************************************)
(* _deduplicate_urls, lines 274-302: an entry that is empty or no string   *)
(* is passed over, the others are stripped; then the checks against the    *)
(* list's own earlier URLs (local to the call), then, under self.lock, the *)
(* check against processed_urls and the similar-URL check.                 *)
(***************************************************************************)
SessionRejects(url) == url \in processed_urls

dedup_session(t) ==
    /\ InSection(SubId(t))
    /\ UNCHANGED monitor
    /\ LET s == sub[t]
           url == strip(s.urls[s.i])
           reject(tier) == /\ last' = Verdict({url}, s.title, tier)
                           /\ sub' = [sub EXCEPT ![t] = NextUrl(s, s.unique)]
       IN  /\ s.pc = "session"
           /\ IF ~IsStr(s.urls[s.i]) \/ ~Truthy(s.urls[s.i])
              THEN /\ sub' = [sub EXCEPT ![t] = NextUrl(s, s.unique)]
                   /\ UNCHANGED last
              ELSE IF url \in Range(s.unique) THEN reject("local_url")
              ELSE IF UrlKey(url) \in {UrlKey(v) : v \in Range(s.unique)} THEN reject("local_key")
              ELSE IF SessionRejects(url) THEN reject("session")
              ELSE IF _is_similar_url(url) THEN reject("similar")
              ELSE /\ sub' = [sub EXCEPT ![t].pc = "db"]
                   /\ UNCHANGED last
           /\ UNCHANGED <<dbVars, pipeVars, poolVars, drain, cfg, submits, admitted, exec_calls,
                          resumable, lastop>>

\* lines 304-305: the ledger lookup
dedup_db(t) ==
    /\ UNCHANGED <<lock, monitor>>
    /\ LET s == sub[t]
           url == strip(s.urls[s.i])
           r == is_downloaded(ledger, url, disk)
       IN  /\ s.pc = "db"
           /\ ledger' = r.table
           /\ sub' = [sub EXCEPT ![t].pc = IF r.completed THEN "db_hit" ELSE "queue"]
           /\ UNCHANGED <<rowids, disk, outfiles, temps, pipeVars, poolVars, drain, cfg, submits,
                          histVars>>

\* lines 306-309: the URL is known to the ledger: remembered and skipped
dedup_db_hit(t) ==
    /\ InSection(SubId(t))
    /\ UNCHANGED monitor
    /\ LET s == sub[t]
           url == strip(s.urls[s.i])
       IN  /\ s.pc = "db_hit"
           /\ processed_urls' = processed_urls \cup {url}
           /\ last' = Verdict({url}, s.title, "db")
           /\ sub' = [sub EXCEPT ![t] = NextUrl(s, s.unique)]
           /\ UNCHANGED <<dbVars, downloading_urls, excluded_titles, chigua_file, active_downloads,
                          shutdown_notified, poolVars, drain, cfg, submits, admitted,
                          exec_calls, resumable, lastop>>

\* lines 311-320: the check against the download queue; a URL that passes
\* joins unique_urls
dedup_queue(t) ==
    /\ InSection(SubId(t))
    /\ UNCHANGED monitor
    /\ LET s == sub[t]
           url == strip(s.urls[s.i])
       IN  /\ s.pc = "queue"
           /\ IF url \in downloading_urls
              THEN /\ last' = Verdict({url}, s.title, "queue")
                   /\ sub' = [sub EXCEPT ![t] = NextUrl(s, s.unique)]
              ELSE /\ sub' = [sub EXCEPT ![t] = NextUrl(s, Append(s.unique, url))]
                   /\ UNCHANGED last
           /\ UNCHANGED <<dbVars, pipeVars, poolVars, drain, cfg, submits, admitted, exec_calls,
                          resumable, lastop>>

(***************************************************************************)
(* _process_single_url, lines 328-340: under self.lock, the last check     *)
(* against downloading_urls and the marking.                               *)
(***************************************************************************)
MarkWithoutProcessed(url) == processed_urls
MarkProcessed(url) == processed_urls \cup {url}

process_single_url_mark(t) ==
    /\ InSection(SubId(t))
    /\ UNCHANGED monitor
    /\ LET s == sub[t]
           url == s.unique[s.i]
       IN  /\ s.pc = "mark"
           /\ IF url \in downloading_urls
              THEN /\ last' = Verdict({url}, s.title, "queue2")
                   /\ sub' = [sub EXCEPT ![t] = NextUnique(s)]
                   /\ UNCHANGED <<downloading_urls, processed_urls>>
              ELSE /\ downloading_urls' = downloading_urls \cup {url}
                   /\ processed_urls' = MarkProcessed(url)
                   /\ sub' = [sub EXCEPT ![t].pc = "submit"]
                   /\ UNCHANGED last
           /\ UNCHANGED <<dbVars, excluded_titles, chigua_file, active_downloads, shutdown_notified,
                          poolVars, drain, cfg, submits, admitted, exec_calls, resumable, lastop>>

(***************************************************************************)
(* _process_single_url, lines 342-375: the output file is looked for; the  *)
(* job is handed to the pool.  ThreadPoolExecutor.submit raises after      *)
(* shutdown, which the except clause turns into a rejection.               *)
(* db.mark_as_downloaded is not in the sources at hand and the design      *)
(* document gives the Ledger no such operation: it leaves the table alone. *)
(***************************************************************************)
\* lines 352-355 and 369-374: the URL is taken out of downloading_urls
\* under self.lock, when the output file exists and when submit raises
SubmitLocks(t) ==
    /\ sub[t].pc = "submit"
    /\ \/ <<sub[t].unique[sub[t].i], sub[t].title>> \in outfiles
       \/ pool_shutdown
SubmitSection(t) ==
    IF SubmitLocks(t) THEN InSection(SubId(t)) ELSE lock.by # SubId(t) /\ UNCHANGED lock

process_single_url_submit(t) ==
    /\ SubmitSection(t)
    /\ UNCHANGED monitor
    /\ LET s == sub[t]
           url == s.unique[s.i]
       IN  /\ s.pc = "submit"
           /\ IF <<url, s.title>> \in outfiles
              THEN /\ downloading_urls' = downloading_urls \ {url}
                   /\ last' = Verdict({url}, s.title, "exists")
                   /\ UNCHANGED <<jobs, admitted>>
              ELSE IF pool_shutdown
              THEN /\ downloading_urls' = downloading_urls \ {url}
                   /\ last' = Verdict({url}, s.title, "error")
                   /\ UNCHANGED <<jobs, admitted>>
              ELSE /\ Len(jobs) < MaxJobs
                   /\ jobs' = Append(jobs, Job(url, s.title))
                   /\ admitted' = [admitted EXCEPT ![url] = @ + 1]
                   /\ last' = Verdict({url}, s.title, "admitted")
                   /\ UNCHANGED downloading_urls
           /\ sub' = [sub EXCEPT ![t] = NextUnique(s)]
           /\ UNCHANGED <<dbVars, processed_urls, excluded_titles, chigua_file, active_downloads,
                          shutdown_notified, pool_shutdown, drain, cfg, submits, exec_calls,
                          resumable, lastop>>

(***************************************************************************)
(* The pool, ThreadPoolExecutor(max_workers=max_concurrent_downloads),     *)
(* lines 116-120: work items are taken in the order of their submission,   *)
(* by at most max_workers threads; a thread is busy with its item until    *)
(* the item's function has returned.                                       *)
(***************************************************************************)
Busy == {k \in 1..Len(jobs) : jobs[k].st \in {"fetching", "callback"}}
Queued == {k \in 1..Len(jobs) : jobs[k].st = "queued"}
Fetching == {k \in 1..Len(jobs) : jobs[k].st = "fetching"}

UnboundedPool == TRUE
SlotFree == Cardinality(Busy) < MaxConcurrent

(***************************************************************************)
(* The job.  download_m3u8, the function handed to the pool, is not in the *)
(* sources at hand; by section 4.3 of the design document a job is the     *)
(* execution of _download_video_async followed, always, by the release of  *)
(* _download_completed.                                                    *)
(*                                                                         *)
(* _download_video_async, lines 441-454: the paths are computed and the    *)
(* Fetch Executor is invoked.                                              *)
(***************************************************************************)
\* lines 195-206: the temp path the ledger holds if that file exists, else
\* {cleaned_title}_{url_hash}.tmp.mp4
TempName(url, title) == Path(title \o "_" \o get_url_hash(url) \o ".tmp", 0)

TitleOnlyTemp(url, title) == Path(title \o ".tmp", 0)
_get_temp_file_path(url, title) ==
    LET existing_temp_path == get_temp_file_path(ledger, url)
    IN  IF existing_temp_path # NULL /\ existing_temp_path \in temps
        THEN existing_temp_path
        ELSE TempName(url, title)

\* lines 526-527: -y is given unless the fetch resumes
HasOverwriteFlag(resume) == ~resume

\* lines 208-212
_get_final_file_path(title) == generate_unique_filename(disk, title)

\* The Fetch Executor creates its output some time after it is started.
\* Whoever looks at the temp directory during the fetch finds the partial
\* file (wrote) or does not; cfg.partial says which of the two the run
\* explores.
download_start(k) ==
    /\ UNCHANGED <<lock, monitor>>
    /\ /\ k \in Queued
       /\ k = Min(Queued)
       /\ SlotFree
       /\ \E wrote \in cfg.partial :
            LET temp_file_path == _get_temp_file_path(jobs[k].url, jobs[k].title)
                resume_download == temp_file_path \in temps
            IN  /\ jobs' = [jobs EXCEPT ![k].st = "fetching",
                                        ![k].temp = temp_file_path,
                                        ![k].final = _get_final_file_path(jobs[k].title),
                                        ![k].y = HasOverwriteFlag(resume_download),
                                        ![k].wrote = wrote]
                /\ temps' = IF wrote THEN temps \cup {temp_file_path} ELSE temps
       /\ exec_calls' = exec_calls \cup {jobs[k].url}
       /\ UNCHANGED <<ledger, rowids, disk, outfiles, pipeVars, pool_shutdown, sub, drain, cfg,
                      submits, admitted, last, resumable, lastop>>

(***************************************************************************)
(* _append_to_excluded_list, lines 707-727.                                *)
(***************************************************************************)
\* what open(chigua_path, 'a').write(f"\n{title}") adds to the lines of the
\* file (a title of the model holds no line break)
WriteTitle(file, title) == (IF file = <<>> THEN <<"">> ELSE file) \o <<title>>
_append_to_excluded_list(title) == excluded_titles \cup {title}

(***************************************************************************)
(* _download_video_async, lines 454-481, with download_m3u8_with_resume,   *)
(* lines 537-559: the Fetch Executor returns.                              *)
(*   "ok"       exit code 0 and a non-empty temp file                      *)
(*   "failed"   non-zero exit code, or subprocess.run raises: what was     *)
(*              written of the temp file stays                             *)
(*   "empty"    exit code 0, the temp file empty or missing                *)
(*   "timeout"  subprocess.TimeoutExpired, caught: False is returned       *)
(*   "raised"   exit code 0 and a non-empty temp file; getsize or move     *)
(*              raises                                                     *)
(* cfg.fetch holds the ways a fetch ends in the run at hand.               *)
(***************************************************************************)
Outcomes == {"ok", "failed", "empty", "timeout", "raised"}
Plain == {"ok", "failed", "raised"}

\* result.returncode of subprocess.run; a timeout gives no result
ExitCode(outcome) ==
    CASE outcome \in {"ok", "empty", "raised"} -> 0
      [] outcome = "failed" -> 1
      [] OTHER -> -1

\* the non-empty temp files once the Fetch Executor has returned
TempsAfter(outcome, files, temp) ==
    IF outcome = "empty" THEN files ELSE files \cup {temp}

\* what download_m3u8_with_resume returns, lines 540-559: True for exit code
\* 0 with the temp file there and not empty
ExitCodeOnly(outcome, files, temp) == ExitCode(outcome) = 0
download_m3u8_with_resume(outcome, files, temp) ==
    ExitCode(outcome) = 0 /\ temp \in files

\* the status _download_video_async writes, lines 465, 473, 479
StatusOf(success, raises) ==
    IF ~success THEN "failed" ELSE IF raises THEN "error" ELSE "completed"

\* what _download_video_async returns: success, no success, or no success
\* with an 'error' entry
ResultOf(success, raises) ==
    IF ~success THEN "failure" ELSE IF raises THEN "error" ELSE "success"

InDrain == drain.pc \in {"check", "prewait", "waiting", "woken"}

download_finish(k, outcome) ==
    /\ UNCHANGED <<lock, monitor>>
    /\ /\ k \in Fetching
       /\ outcome \in cfg.fetch
       /\ outcome = "empty" => jobs[k].temp \notin temps
       /\ LET after == TempsAfter(outcome, temps, jobs[k].temp)
              success == download_m3u8_with_resume(outcome, after, jobs[k].temp)
              raises == outcome = "raised"
          IN  /\ jobs' = [jobs EXCEPT ![k].st = "callback", ![k].outcome = outcome,
                                      ![k].result = ResultOf(success, raises)]
              /\ IF success /\ ~raises
                 THEN /\ disk' = disk \cup {jobs[k].final}
                      /\ temps' = after \ {jobs[k].temp}
                      /\ ledger' = update_download_status(ledger, jobs[k].url, "completed",
                                                          jobs[k].final, "size")
                      /\ chigua_file' = WriteTitle(chigua_file, jobs[k].title)
                      /\ excluded_titles' = _append_to_excluded_list(jobs[k].title)
                 ELSE /\ temps' = after
                      /\ ledger' = update_download_status(ledger, jobs[k].url,
                                                          StatusOf(success, raises),
                                                          NULL, "NULL")
                      /\ UNCHANGED <<disk, excluded_titles, chigua_file>>
       /\ drain' = IF InDrain THEN [drain EXCEPT !.fin = @ \cup {k}] ELSE drain
       /\ UNCHANGED <<rowids, outfiles, processed_urls, downloading_urls, active_downloads,
                      shutdown_notified, pool_shutdown, sub, cfg, submits, histVars>>

(***************************************************************************)
(* _download_completed, lines 495-505: under self.lock the URL leaves      *)
(* downloading_urls and the count goes down; at zero the waiters of        *)
(* downloads_done are notified.                                            *)
(***************************************************************************)
KeepInFlight(url) == downloading_urls
ReleaseAll(url) == {}
Release(url) == downloading_urls \ {url}

download_completed(k) ==
    /\ InSection(JobId(k))
    /\ UNCHANGED monitor
    /\ /\ k \in 1..Len(jobs)
       /\ jobs[k].st = "callback"
       /\ jobs' = [jobs EXCEPT ![k].st = "done"]
       /\ downloading_urls' = Release(jobs[k].url)
       /\ active_downloads' = active_downloads - 1
       /\ drain' = IF active_downloads' = 0 /\ drain.pc = "waiting"
                   THEN [drain EXCEPT !.pc = "woken"]
                   ELSE drain
       /\ UNCHANGED <<dbVars, processed_urls, excluded_titles, chigua_file, shutdown_notified,
                      pool_shutdown, sub, cfg, submits, histVars>>

(***************************************************************************)
(* close_spider, lines 652-687, and _cleanup_resources, lines 689-705.     *)
(* shutdown(wait=False) stops the pool taking new work; the work items     *)
(* already queued are still run.                                           *)
(***************************************************************************)
Unfinished == {k \in 1..Len(jobs) : jobs[k].st # "done"}

CancelQueued == [k \in 1..Len(jobs) |->
                    IF jobs[k].st = "queued" THEN [jobs[k] EXCEPT !.st = "done"] ELSE jobs[k]]
_cleanup_resources == jobs

Terminal == {"completed", "failed", "error"}

\* what close_spider leaves behind when it returns: whether it ran
\* cleanup_temp_files, the count it read last, whether a job was still
\* unfinished, and whether a job that finished while it ran has no terminal
\* row in the ledger
Returned(timed_out, swept) ==
    [pc |-> "stopped", timed_out |-> timed_out, swept |-> swept, fin |-> {},
     ret_active |-> active_downloads,
     ret_busy |-> Unfinished # {},
     ret_unrecorded |-> \E k \in drain.fin :
                           \/ ~HasRow(ledger, jobs[k].url)
                           \/ ledger[get_url_hash(jobs[k].url)].status \notin Terminal]

\* lines 656-660
close_spider_begin ==
    /\ UNCHANGED <<lock, monitor>>
    /\ /\ drain.pc = "running"
       /\ cfg.late \/ \A t \in DOMAIN sub : sub[t].pc = "idle"
       /\ drain' = [drain EXCEPT !.pc = "check"]
       /\ UNCHANGED <<dbVars, pipeVars, poolVars, sub, cfg, submits, histVars>>

\* lines 662-672, under self.lock
close_spider_check ==
    /\ InSection(DrainId)
    /\ UNCHANGED monitor
    /\ /\ drain.pc = "check"
       /\ shutdown_notified' = TRUE
       /\ IF active_downloads = 0
          THEN /\ jobs' = _cleanup_resources
               /\ pool_shutdown' = TRUE
               /\ drain' = Returned(FALSE, FALSE)
          ELSE /\ drain' = [drain EXCEPT !.pc = "prewait"]
               /\ UNCHANGED poolVars
       /\ UNCHANGED <<dbVars, processed_urls, downloading_urls, excluded_titles, chigua_file,
                      active_downloads, sub, cfg, submits, histVars>>

\* lines 675-677: the caller becomes a waiter of downloads_done
close_spider_wait ==
    /\ UNCHANGED <<lock, monitor>>
    /\ /\ drain.pc = "prewait"
       /\ drain' = [drain EXCEPT !.pc = "waiting"]
       /\ UNCHANGED <<dbVars, pipeVars, poolVars, sub, cfg, submits, histVars>>

\* line 677: wait(timeout=7200) gives up
WaitsForever == FALSE
WaitTimesOut == TRUE

close_spider_timeout ==
    /\ UNCHANGED <<lock, monitor>>
    /\ /\ drain.pc = "waiting"
       /\ WaitTimesOut
       /\ drain' = [drain EXCEPT !.pc = "woken", !.timed_out = TRUE]
       /\ UNCHANGED <<dbVars, pipeVars, poolVars, sub, cfg, submits, histVars>>

\* cleanup_temp_files, lines 605-635: the files of temp_store whose last
\* change (getmtime) is more than 7 days back are removed.  The files found
\* at the start (cfg.old) were left more than 7 days ago; a file is changed
\* when a Fetch Executor writes to it, which it has done when it returns,
\* and a run is shorter than 7 days.
WrittenThisRun ==
    {jobs[k].temp : k \in {j \in 1..Len(jobs) :
                               jobs[j].wrote \/ jobs[j].st \in {"callback", "done"}}}
OldTemps == (temps \cap cfg.old) \ WrittenThisRun

RemoveAllTemps == {}
cleanup_temp_files == temps \ OldTemps

\* lines 679-687
close_spider_finish ==
    /\ UNCHANGED <<lock, monitor>>
    /\ /\ drain.pc = "woken"
       /\ temps' = cleanup_temp_files
       /\ jobs' = _cleanup_resources
       /\ pool_shutdown' = TRUE
       /\ drain' = Returned(drain.timed_out, TRUE)
       /\ UNCHANGED <<ledger, rowids, disk, outfiles, pipeVars, sub, cfg, submits, histVars>>

(***************************************************************************)
(* Direct calls of the ledger (the monitor and the administrative calls):  *)
(* DownloadDatabase on its own, with files coming and going on disk.       *)
(***************************************************************************)
LedgerURLs == {UA, UB}
LedgerPaths == {Path("T1", 0), Path("T2", 0)}
Statuses == {"downloading", "completed", "failed", "error", "missing_file"}

LedgerTemps == {Path("tmp", 0)}

\* a call and what it returned: ok the boolean, path the path, n the number
Op(name, url, ok, path, n) == [op |-> name, url |-> url, ok |-> ok, path |-> path, n |-> n]

NoOp == Op("none", UA, FALSE, NULL, 0)

db_add_download_record(url, temp_file_path) ==
    /\ UNCHANGED <<lock, monitor>>
    /\ /\ rowids.seq < MaxRowId
       /\ ledger' = add_download_record(ledger, url, temp_file_path)
       /\ rowids' = insert_or_replace(rowids, get_url_hash(url))
       /\ lastop' = Op("add", url, TRUE, NULL, rowids'.seq)
       /\ UNCHANGED <<disk, outfiles, temps, pipeVars, poolVars, sub, drain, cfg, submits,
                      admitted, exec_calls, last, resumable>>

db_update_download_status(url, status, file_path, file_size) ==
    /\ UNCHANGED <<lock, monitor>>
    /\ /\ ledger' = update_download_status(ledger, url, status, file_path, file_size)
       /\ lastop' = Op("update", url, update_found(ledger, url), NULL, 0)
       /\ UNCHANGED <<rowids, disk, outfiles, temps, pipeVars, poolVars, sub, drain, cfg, submits,
                      admitted, exec_calls, last, resumable>>

db_is_download_completed(url) ==
    /\ UNCHANGED <<lock, monitor>>
    /\ LET r == is_download_completed(ledger, url, disk)
       IN  /\ ledger' = r.table
           /\ lastop' = Op("lookup", url, r.completed, r.file_path, 0)
           /\ UNCHANGED <<rowids, disk, outfiles, temps, pipeVars, poolVars, sub, drain, cfg, submits,
                          admitted, exec_calls, last, resumable>>

db_get_temp_file_path(url) ==
    /\ UNCHANGED <<lock, monitor>>
    /\ /\ lastop' = Op("temp", url, get_temp_file_path(ledger, url) # NULL,
                       get_temp_file_path(ledger, url), 0)
       /\ UNCHANGED <<dbVars, pipeVars, poolVars, sub, drain, cfg, submits,
                      admitted, exec_calls, last, resumable>>

\* cleanup_missing_files returns len(missing_files)
db_cleanup_missing_files ==
    /\ UNCHANGED <<lock, monitor>>
    /\ /\ ledger' = cleanup_missing_files(ledger, disk)
       /\ lastop' = Op("cleanup", "", TRUE, NULL, Cardinality(MissingRows(ledger, disk)))
       /\ UNCHANGED <<rowids, disk, outfiles, temps, pipeVars, poolVars, sub, drain, cfg, submits,
                      admitted, exec_calls, last, resumable>>

\* reset_all_records: DELETE FROM downloads, returns cursor.rowcount
db_reset_all_records ==
    /\ UNCHANGED <<lock, monitor>>
    /\ /\ ledger' = reset_all_records(ledger)
       /\ rowids' = delete_all(rowids)
       /\ lastop' = Op("reset", "", TRUE, NULL, deleted_count(rowids))
       /\ UNCHANGED <<disk, outfiles, temps, pipeVars, poolVars, sub, drain, cfg, submits,
                      admitted, exec_calls, last, resumable>>

(***************************************************************************)
(* The storage layer faults: sqlite3 raises inside the call (the file is   *)
(* locked beyond the timeout, unreadable, ...).  Every method catches the  *)
(* exception, logs it and returns its fallback; nothing was committed.     *)
(* In is_download_completed the fault is that of the SELECT or that of the *)
(* nested update_download_status, which answers False itself: either way   *)
(* the row stays as it was and the answer is (False, None).                *)
(***************************************************************************)
FaultMeansDone(L) == [completed |-> TRUE, file_path |-> NULL, table |-> L]
lookup_on_fault(L) == [completed |-> FALSE, file_path |-> NULL, table |-> L]

db_is_download_completed_fault(url) ==
    /\ UNCHANGED <<lock, monitor>>
    /\ LET r == lookup_on_fault(ledger)
       IN  /\ ledger' = r.table
           /\ lastop' = Op("lookup_fault", url, r.completed, r.file_path, 0)
           /\ UNCHANGED <<rowids, disk, outfiles, temps, pipeVars, poolVars, sub, drain, cfg, submits,
                          admitted, exec_calls, last, resumable>>

db_get_temp_file_path_fault(url) ==
    /\ UNCHANGED <<lock, monitor>>
    /\ /\ lastop' = Op("temp_fault", url, FALSE, NULL, 0)
       /\ UNCHANGED <<dbVars, pipeVars, poolVars, sub, drain, cfg, submits,
                      admitted, exec_calls, last, resumable>>

db_update_download_status_fault(url) ==
    /\ UNCHANGED <<lock, monitor>>
    /\ /\ lastop' = Op("update_fault", url, FALSE, NULL, 0)
       /\ UNCHANGED <<dbVars, pipeVars, poolVars, sub, drain, cfg, submits,
                      admitted, exec_calls, last, resumable>>

\* the ledger lookup of _deduplicate_urls, lines 304-305, hits the fault
dedup_db_fault(t) ==
    /\ UNCHANGED <<lock, monitor>>
    /\ LET s == sub[t]
           url == strip(s.urls[s.i])
           r == lookup_on_fault(ledger)
       IN  /\ s.pc = "db"
           /\ ledger' = r.table
           /\ sub' = [sub EXCEPT ![t].pc = IF r.completed THEN "db_hit" ELSE "queue"]
           /\ lastop' = Op("admission_fault", url, r.completed, r.file_path, 0)
           /\ UNCHANGED <<rowids, disk, outfiles, temps, pipeVars, poolVars, drain, cfg, submits,
                          admitted, exec_calls, last, resumable>>

\* a file is written or deleted by someone else
file_appears(p) ==
    /\ UNCHANGED <<lock, monitor>>
    /\ /\ p \notin disk
       /\ disk' = disk \cup {p}
       /\ UNCHANGED <<ledger, rowids, outfiles, temps, pipeVars, poolVars, sub, drain, cfg, submits,
                      histVars>>

file_vanishes(p) ==
    /\ UNCHANGED <<lock, monitor>>
    /\ /\ p \in disk
       /\ disk' = disk \ {p}
       /\ UNCHANGED <<ledger, rowids, outfiles, temps, pipeVars, poolVars, sub, drain, cfg, submits,
                      histVars>>

(***************************************************************************)
(* get_download_statistics, database.py lines 198-241: the number of rows, *)
(* the number of rows of each status (GROUP BY status: the statuses that   *)
(* have a row), and the number of rows that are completed with a file_path *)
(* that is not NULL.  total_size_mb, a sum of sizes, is left out: the      *)
(* model keeps of a size only whether it is NULL.                          *)
(***************************************************************************)
RowsWith(L, status) == {h \in DOMAIN L : L[h].status = status}

get_download_statistics(L) ==
    [total |-> Cardinality(DOMAIN L),
     status_stats |-> [st \in {L[h].status : h \in DOMAIN L} |-> Cardinality(RowsWith(L, st))],
     valid_files |-> Cardinality({h \in RowsWith(L, "completed") : L[h].file_path # NULL})]

db_get_download_statistics ==
    /\ lastop' = [op |-> "stats", url |-> "", ok |-> TRUE, path |-> NULL,
                  n |-> get_download_statistics(ledger).total,
                  stats |-> get_download_statistics(ledger)]
    /\ UNCHANGED <<dbVars, pipeVars, lock, monitor, poolVars, sub, drain, cfg, submits,
                   admitted, exec_calls, last, resumable>>

(***************************************************************************)
(* self.lock taken and given back, and _monitor_downloads, lines 416-431:  *)
(* every 5 s the monitor thread reads the count under self.lock, and ends  *)
(* when the count is 0 and close_spider has been called.                   *)
(***************************************************************************)
Threads ==
    {SubId(t) : t \in 1..2} \cup {JobId(k) : k \in 1..MaxJobs} \cup {DrainId, MonitorId}

\* thread th stands before a `with self.lock` block
AtSection(th) ==
    CASE th.kind = "sub" ->
             \/ sub[th.n].pc \in {"session", "db_hit", "queue", "mark"}
             \/ SubmitLocks(th.n)
      [] th.kind = "job" -> th.n \in 1..Len(jobs) /\ jobs[th.n].st = "callback"
      [] th.kind = "drain" -> drain.pc = "check"
      [] th.kind = "monitor" -> monitor = "running"

NeverReleased(th) == lock
Released(th) == Free

lock_acquire(th) ==
    /\ cfg.locks
    /\ lock = Free
    /\ AtSection(th)
    /\ lock' = Held(th, FALSE)
    /\ UNCHANGED <<dbVars, pipeVars, poolVars, monitor, sub, drain, cfg, submits, histVars>>

lock_release(th) ==
    /\ lock = Held(th, TRUE)
    /\ lock' = Released(th)
    /\ UNCHANGED <<dbVars, pipeVars, poolVars, monitor, sub, drain, cfg, submits, histVars>>

monitor_check ==
    /\ monitor = "running"
    /\ InSection(MonitorId)
    /\ monitor' = IF active_downloads = 0 /\ shutdown_notified THEN "exited" ELSE "running"
    /\ UNCHANGED <<dbVars, pipeVars, poolVars, sub, drain, cfg, submits, histVars>>

(***************************************************************************)
(* Initial states.  What a run finds at its start: the ledger and the      *)
(* files earlier runs left, and the titles loaded by _load_excluded_titles.*)
(***************************************************************************)
Found(table, files, lines, outs, tmps) ==
    [ledger |-> table, disk |-> files, file |-> lines, outfiles |-> outs,
     temps |-> tmps]

\* utils/51chigua.txt as an earlier run left it, with one title
Listed == <<"# done", "", "T1 ">>

Done1 == [h \in {get_url_hash(UA)} |-> Row("completed", Path("T1", 0), "size", Path("tmp", 0))]
Failed1 == [h \in {get_url_hash(UA)} |-> Row("failed", NULL, "NULL", TempName(UA, "T1"))]

Starts ==
    { Found(EmptyTable, {}, <<>>, {}, {}),              \* nothing found
      Found(Done1, {Path("T1", 0)}, Listed, {}, {}),    \* UA done, its title listed
      Found(Done1, {Path("T1", 0)}, <<>>, {}, {}),      \* UA done, title list lost
      Found(Done1, {}, <<>>, {}, {}),                   \* UA done, its file deleted
      Found(Failed1, {}, <<>>, {<<UC, "T1">>}, {TempName(UA, "T1")}) }
                                    \* UA failed, its temp file left; an output file of UC

\* the rows of a table found at the start, in the order of their ids
InitRows(table) ==
    LET n == Cardinality(DOMAIN table)
    IN  [seq |-> n,
         of |-> CHOOSE f \in [1..n -> DOMAIN table] : \A i, j \in 1..n : f[i] = f[j] => i = j]

Resumable(table, files) ==
    {u \in URLS : CompletedRow(table, u) /\ FileThere(table, u, files)}

InitWith(starts, threads, late, calls, fetch, partial, items, locks) ==
    /\ \E f \in starts :
        /\ ledger = f.ledger
        /\ rowids = InitRows(f.ledger)
        /\ disk = f.disk
        /\ chigua_file = f.file
        /\ excluded_titles = _load_excluded_titles(f.file)
        /\ outfiles = f.outfiles
        /\ temps = f.temps
        /\ cfg = [threads |-> threads, late |-> late, calls |-> calls, fetch |-> fetch,
                  partial |-> partial, old |-> f.temps,
                  items |-> items, locks |-> locks]
        /\ resumable = Resumable(f.ledger, f.disk)
    /\ processed_urls = {}
    /\ downloading_urls = {}
    /\ active_downloads = 0
    /\ shutdown_notified = FALSE
    /\ lock = Free
    /\ monitor = "running"
    /\ jobs = <<>>
    /\ pool_shutdown = FALSE
    /\ sub = [t \in 1..2 |-> Idle]
    /\ drain = [pc |-> "running", timed_out |-> FALSE, swept |-> FALSE, fin |-> {},
                ret_active |-> 0, ret_busy |-> FALSE, ret_unrecorded |-> FALSE]
    /\ submits = 0
    /\ admitted = [u \in URLS |-> 0]
    /\ exec_calls = {}
    /\ last = Verdict({}, "", "none")
    /\ lastop = NoOp

\* the pipeline as Scrapy drives it: one thread calls process_item, and
\* close_spider after the last item
Init == InitWith(Starts, 1, FALSE, MaxSubmits, Plain, {FALSE}, Items, FALSE)

Next ==
    \/ \E t \in 1..2, item \in cfg.items : process_item(t, item.m3u8_url, item.title)
    \/ \E t \in 1..2 : dedup_session(t)
    \/ \E t \in 1..2 : dedup_db(t)
    \/ \E t \in 1..2 : dedup_db_hit(t)
    \/ \E t \in 1..2 : dedup_queue(t)
    \/ \E t \in 1..2 : process_single_url_mark(t)
    \/ \E t \in 1..2 : process_single_url_submit(t)
    \/ \E k \in 1..MaxJobs : download_start(k)
    \/ \E k \in 1..MaxJobs, outcome \in Outcomes : download_finish(k, outcome)
    \/ \E k \in 1..MaxJobs : download_completed(k)
    \/ close_spider_begin
    \/ close_spider_check
    \/ close_spider_wait
    \/ close_spider_timeout
    \/ close_spider_finish

Spec == Init /\ [][Next]_vars

\* two threads call process_item at the same time
InitConc == InitWith(Starts, 2, FALSE, MaxSubmits, Plain, {FALSE}, Items, FALSE)
SpecConc == InitConc /\ [][Next]_vars

(***************************************************************************)
(* The worker threads of the pool run: a queued work item is taken as soon *)
(* as a thread is free, the Fetch Executor returns (at the latest when its *)
(* timeout of 3600 s expires) and the release runs.                        *)
(***************************************************************************)
Fairness ==
    \A k \in 1..MaxJobs :
        /\ WF_vars(download_start(k))
        /\ WF_vars(\E outcome \in Outcomes : download_finish(k, outcome))
        /\ WF_vars(download_completed(k))

FairSpec == Init /\ [][Next]_vars /\ Fairness

(***************************************************************************)
(* The ledger on its own.                                                  *)
(***************************************************************************)
InitLedger == InitWith({Found(EmptyTable, {}, <<>>, {}, {})}, 1, FALSE, 0, Plain, {FALSE}, Items, FALSE)

NextLedger ==
    \/ \E url \in LedgerURLs, temp_file_path \in LedgerTemps :
            db_add_download_record(url, temp_file_path)
    \/ \E url \in LedgerURLs : db_get_temp_file_path(url)
    \/ \E url \in LedgerURLs, status \in Statuses, file_path \in LedgerPaths \cup {NULL},
          file_size \in {"NULL", "size"} :
            db_update_download_status(url, status, file_path, file_size)
    \/ \E url \in LedgerURLs : db_is_download_completed(url)
    \/ db_cleanup_missing_files
    \/ db_reset_all_records
    \/ \E p \in LedgerPaths : file_appears(p)
    \/ \E p \in LedgerPaths : file_vanishes(p)

SpecLedger == InitLedger /\ [][NextLedger]_vars

\* the ledger on its own, with its statistics asked for
NextStats ==
    \/ NextLedger
    \/ db_get_download_statistics
SpecStats == InitLedger /\ [][NextStats]_vars

(***************************************************************************)
(* One submission to the pipeline, with a storage layer that may fault.    *)
(***************************************************************************)
InitFault == InitWith(Starts, 1, FALSE, 1, Plain, {FALSE}, Items, FALSE)

NextFault ==
    \/ Next
    \/ \E t \in 1..2 : dedup_db_fault(t)
    \/ \E url \in LedgerURLs : db_is_download_completed(url)
    \/ \E url \in LedgerURLs : db_is_download_completed_fault(url)
    \/ \E url \in LedgerURLs : db_get_temp_file_path(url)
    \/ \E url \in LedgerURLs : db_get_temp_file_path_fault(url)
    \/ \E url \in LedgerURLs : db_update_download_status_fault(url)

SpecFault == InitFault /\ [][NextFault]_vars

(***************************************************************************)
(* The jobs: one thread calls process_item, and a fetch ends in any of the *)
(* ways of download_m3u8_with_resume and _download_video_async.            *)
(***************************************************************************)
InitJob == InitWith(Starts, 1, FALSE, MaxSubmits, Outcomes, {FALSE}, Items, FALSE)

SpecJob == InitJob /\ [][Next]_vars

\* one call of process_item, with the worker threads of the pool running
InitOneCall == InitWith(Starts, 1, FALSE, 1, Outcomes, {FALSE}, Items, FALSE)

\* the same run as Init, looked at also while a fetch has written part of
\* its output
InitSweep == InitWith(Starts, 1, FALSE, MaxSubmits, Plain, BOOLEAN, Items, FALSE)
SpecSweep == InitSweep /\ [][Next]_vars

\* a producer that goes on calling process_item while close_spider runs
InitLate == InitWith(Starts, 1, TRUE, MaxSubmits, Plain, {FALSE}, Items, FALSE)
SpecLate == InitLate /\ [][Next]_vars

\* one call of process_item, with the taking and the release of self.lock
\* as steps, and with the monitor thread
InitLocks == InitWith(Starts, 1, FALSE, 1, Plain, {FALSE}, Items, TRUE)
NextLocks ==
    \/ Next
    \/ \E th \in Threads : lock_acquire(th)
    \/ \E th \in Threads : lock_release(th)
    \/ monitor_check
SpecLocks == InitLocks /\ [][NextLocks]_vars

\* the same run as Init, with a title that begins with #
TitleItems ==
    { Item(<<UA>>, "T1"), Item(<<UA>>, "#T2"), Item(<<UD>>, "#T2"), Item(<<UD>>, "T2"),
      Item(<<UA, UC>>, "T1") }
InitTitles == InitWith(Starts, 1, FALSE, MaxSubmits, Plain, {FALSE}, TitleItems, FALSE)
SpecTitles == InitTitles /\ [][Next]_vars

\* the same run as Init, with lists as a producer may hand them over
InitRaw == InitWith(Starts, 1, FALSE, MaxSubmits, Plain, {FALSE}, RawItems, FALSE)
SpecRaw == InitRaw /\ [][Next]_vars

FairJob == InitOneCall /\ [][Next]_vars /\ Fairness

(***************************************************************************)
(* The thread that called close_spider runs: it gets self.lock, which no   *)
(* thread holds for long, and its wait ends at the latest after 7200 s.    *)
(* Nothing is assumed of the worker threads.                               *)
(***************************************************************************)
DrainRuns ==
    /\ WF_vars(close_spider_check)
    /\ WF_vars(close_spider_wait)
    /\ WF_vars(close_spider_timeout)
    /\ WF_vars(close_spider_finish)

FairDrain == InitOneCall /\ [][Next]_vars /\ DrainRuns

(***************************************************************************)
(* Properties.                                                             *)
(***************************************************************************)
Rejected == last.tier \notin {"none", "admitted"}
AdmittedOnce == \A u \in URLS : admitted[u] <= 1
JobsOf(u) == {k \in 1..Len(jobs) : jobs[k].url = u}

\* C1 (as claimed): every URL is admitted at most once in a run, and every
\* submission of a URL that was admitted before is rejected by the check
\* against processed_urls (tier 1).
C1_RejectedAtTierOne ==
    /\ AdmittedOnce
    /\ (Rejected /\ \E u \in last.us : admitted[u] >= 1) => last.tier = "session"

\* C1 (amended): every URL is admitted at most once in a run, and every
\* submission of a URL that was admitted before is rejected: by the title
\* check of process_item, which runs first, when its title is excluded, and
\* by the check against processed_urls otherwise.
C1_IdempotentAdmission ==
    /\ AdmittedOnce
    /\ (Rejected /\ \E u \in last.us : admitted[u] >= 1) => last.tier \in {"title", "session"}

\* a URL whose job has run to its end is submitted again and is rejected by
\* the check against processed_urls
C1_Witness ==
    /\ last.tier = "session"
    /\ \E u \in last.us : admitted[u] = 1 /\ \A k \in JobsOf(u) : jobs[k].st = "done"

\* C2: of two concurrent submissions of one URL at most one is admitted,
\* in every interleaving of the checks, the marking and the release.
C2_AtomicCheckAndInsert == AdmittedOnce

\* C3 (as claimed): a URL that starts the run completed in the ledger with
\* its file on disk is rejected by the ledger check (tier 2) whenever it is
\* submitted, and the Fetch Executor is never invoked for it.
C3_RejectedAtTierTwo ==
    /\ resumable \cap exec_calls = {}
    /\ (last.tier # "none" /\ last.us \cap resumable # {}) => last.tier = "db"

\* C3 (amended): a URL that starts the run completed in the ledger with its
\* file on disk is never admitted and the Fetch Executor is never invoked
\* for it; a submission of it is rejected by the ledger check, which finds
\* the row completed and its file on disk, unless a check the code runs
\* earlier rejects it first (the title check, a duplicate earlier in the same
\* list, the check against processed_urls, the similar-URL check).
C3_CrossRunResume ==
    /\ resumable \cap exec_calls = {}
    /\ \A u \in resumable : admitted[u] = 0 /\ u \notin downloading_urls
    /\ (last.tier # "none" /\ last.us \cap resumable # {}) =>
            last.tier \in {"title", "local_url", "local_key", "session", "similar", "db"}
    /\ last.tier = "db" =>
            \A u \in last.us : CompletedRow(ledger, u) /\ FileThere(ledger, u, disk)

\* the ledger check has rejected a URL completed in an earlier run
C3_Witness == last.tier = "db" /\ last.us # {} /\ last.us \subseteq resumable

\* C4: a lookup of a completed row whose file is gone (or whose file_path is
\* NULL) answers (False, None) and leaves the row missing_file; a lookup of
\* a missing_file row answers not completed and changes nothing.
LookupStep == lastop'.op = "lookup" /\ (lastop' # lastop \/ ledger' # ledger)

C5_ConcurrencyBound == Cardinality(Fetching) <= MaxConcurrent

\* all slots are taken by running fetches and a further job waits
C5_Witness == Cardinality(Fetching) = MaxConcurrent /\ Queued # {}

\* C6: a job handed to the pool is started in the end, also when it had to
\* wait for a slot and also when the pool was shut down meanwhile; no job
\* ends without having been executed.
Started(k) == k <= Len(jobs) /\ jobs[k].final # NULL

C6_QueuedNotDropped ==
    /\ \A k \in 1..MaxJobs : (k \in Queued) ~> Started(k)
    /\ [](\A k \in 1..Len(jobs) : jobs[k].st \in {"callback", "done"} => Started(k))

\* a job that was handed over while all slots were busy has run, after the
\* pool was shut down
C6_Witness ==
    /\ Len(jobs) > MaxConcurrent
    /\ jobs[Len(jobs)].st = "done"
    /\ jobs[Len(jobs)].result # "none"
    /\ pool_shutdown

\* C7: when close_spider returns without its wait having timed out, the
\* count is 0 and no job is still active.
C7_DrainCount ==
    (drain.pc = "stopped" /\ ~drain.timed_out) => (drain.ret_active = 0 /\ ~drain.ret_busy)

\* C8: when close_spider returns without its wait having timed out, every
\* job that finished while it ran has a row in the ledger with status
\* completed, failed or error.
C8_DrainLedger == (drain.pc = "stopped" /\ ~drain.timed_out) => ~drain.ret_unrecorded

\* C9 (as claimed): two URLs that contain the same alphanumeric run of at
\* least 12 characters are never both admitted or remembered in one run.
LongRuns == [u \in URLS |-> {t \in Range(Tokens(u)) : t.k = "an" /\ t.n >= RunKeyLen}]
SharesRun(a, b) == a # b /\ LongRuns[a] \cap LongRuns[b] # {}

C9_AnySharedRun ==
    \A a, b \in URLS : SharesRun(a, b) =>
        ~(a \in processed_urls /\ b \in processed_urls)

\* C9 (amended): two URLs whose longest alphanumeric run (the first of the
\* longest) is the same run of at least 12 characters are never both
\* admitted or remembered in one run.
LongestRun ==
    [u \in URLS |-> IF RunMatches(Tokens(u)) = <<>> THEN An("")
                    ELSE Longest(RunMatches(Tokens(u)))]
SameLongestRun(a, b) ==
    /\ a # b
    /\ LongestRun[a] = LongestRun[b]
    /\ LongestRun[a].n >= RunKeyLen

C9_FuzzyDedup ==
    \A a, b \in URLS : SameLongestRun(a, b) =>
        /\ ~(a \in processed_urls /\ b \in processed_urls)
        /\ ~(admitted[a] >= 1 /\ admitted[b] >= 1)

\* a URL is rejected for its key, after the URL that shares its longest run
\* was admitted or earlier in the same list
C9_Witness ==
    /\ last.tier \in {"similar", "local_key"}
    /\ \E b \in last.us : \E a \in processed_urls : SameLongestRun(a, b)

\* C10: once a job with title T has succeeded, the row of its URL is
\* completed and T is in the exclusion set.
C10_TitleExclusionAfterSuccess ==
    \A k \in 1..Len(jobs) : jobs[k].result = "success" =>
        /\ CompletedRow(ledger, jobs[k].url)
        /\ jobs[k].title \in excluded_titles

\* C11 (as claimed): the checks run in the order seen-this-run, ledger,
\* title, key, in-flight, so a submission is rejected by the title check only
\* when its URLs are not seen-this-run (a lower-numbered tier would have won).
C11_TitleAfterSeenAndLedger ==
    [][(submits' # submits /\ last'.tier = "title") =>
            last'.us \cap processed_urls = {}]_vars

\* C11 (amended): the checks run in the code's order, first match wins:
\* the title check, the exact and the key duplicate within the list, the
\* seen-this-run check, the similar-key check, the ledger lookup, the
\* in-flight check.  A submission whose title is excluded never passes the
\* title check; a rejection by a later check is of a URL no earlier check
\* matches.
C11_CodeOrder ==
    [][/\ submits' # submits =>
            /\ \A t \in DOMAIN sub : sub'[t] # sub[t] => sub'[t].title \notin excluded_titles
            /\ last' # last => last'.tier = "title" /\ last'.title \in excluded_titles
       /\ (last' # last /\ last'.tier \in {"similar", "db", "queue", "queue2"}) =>
            last'.us \cap processed_urls = {}
       /\ (last' # last /\ last'.tier \in {"db", "queue", "queue2"}) =>
            \A u \in last'.us : ~_is_similar_url(u)
       /\ (last' # last /\ last'.tier = "queue") =>
            \A u \in last'.us : ~(CompletedRow(ledger, u) /\ FileThere(ledger, u, disk))]_vars

\* a submission that is seen-this-run and title-excluded was rejected by the
\* title check
C11_Witness == last.tier = "title" /\ last.us \cap processed_urls # {}

\* C12: after any sequence of ledger calls every completed row has a
\* file_path.
C12_CompletedHasPath ==
    \A h \in DOMAIN ledger : ledger[h].status = "completed" => ledger[h].file_path # NULL

\* C13: a completed row is not moved back by add_download_record or
\* update_download_status: short of a reset it stays completed, or becomes
\* missing_file, and keeps its file_path.
C13_ForwardOnly ==
    [][\A h \in DOMAIN ledger :
            (ledger[h].status = "completed" /\ lastop'.op # "reset") =>
                /\ h \in DOMAIN ledger'
                /\ ledger'[h].status \in {"completed", "missing_file"}
                /\ ledger[h].file_path # NULL => ledger'[h].file_path # NULL]_vars

\* C14: update_download_status returns True exactly when the URL has a row;
\* it creates no row, touches no other row, and without a row changes
\* nothing.
UpdateStep == lastop'.op = "update" /\ (lastop' # lastop \/ ledger' # ledger)

C14_UpdateOnlyExisting ==
    [][UpdateStep =>
        LET u == lastop'.url
        IN  /\ lastop'.ok <=> HasRow(ledger, u)
            /\ DOMAIN ledger' = DOMAIN ledger
            /\ \A h \in DOMAIN ledger : h # get_url_hash(u) => ledger'[h] = ledger[h]
            /\ ~HasRow(ledger, u) => ledger' = ledger
            /\ rowids' = rowids]_vars

\* an update of a URL without a row has answered False while another URL
\* has a row
C14_Witness ==
    /\ lastop.op = "update"
    /\ ~lastop.ok
    /\ ~HasRow(ledger, lastop.url)
    /\ DOMAIN ledger # {}

\* C15: the table holds at most one row per url_hash, also after repeated
\* add_download_record calls for one URL, and the rows are those the lookups
\* by url_hash see.
C15_KeyUniqueness ==
    /\ \A u \in AllURLs : Cardinality(RowsOf(rowids, get_url_hash(u))) <= 1
    /\ {rowids.of[i] : i \in DOMAIN rowids.of} = DOMAIN ledger

\* the second add_download_record for one URL has replaced the first row
C15_Witness ==
    /\ lastop.op = "add"
    /\ lastop.n = 2
    /\ RowsOf(rowids, get_url_hash(lastop.url)) = {2}
    /\ DOMAIN rowids.of = {2}

\* C16: the set of url_hash keys never shrinks, except by reset_all_records,
\* which leaves the table empty and returns the number of rows it removed.
ResetStep == lastop'.op = "reset" /\ (lastop' # lastop \/ ledger' # ledger)

C16_NoDeletion ==
    [][IF ResetStep
       THEN /\ ledger' = EmptyTable
            /\ DOMAIN rowids'.of = {}
            /\ lastop'.n = Cardinality(DOMAIN ledger)
       ELSE DOMAIN ledger \subseteq DOMAIN ledger']_vars

\* reset_all_records has removed the rows there were
C16_Witness == lastop.op = "reset" /\ lastop.n >= 1 /\ ledger = EmptyTable

\* C17: a ledger call that hits a storage fault returns its fallback
\* ((False, None), None, False) and changes nothing; the ledger lookup of an
\* admission that hits the fault counts the URL as not completed, and the
\* admission goes on to the in-flight check.
FaultOps == {"lookup_fault", "temp_fault", "update_fault", "admission_fault"}

C17_ConservativeDegradation ==
    [][(lastop' # lastop /\ lastop'.op \in FaultOps) =>
            /\ ~lastop'.ok
            /\ lastop'.path = NULL
            /\ ledger' = ledger
            /\ rowids' = rowids
            /\ lastop'.op = "admission_fault" =>
                    \A t \in DOMAIN sub : sub[t].pc = "db" => sub'[t].pc = "queue"]_vars

\* a URL that is completed with its file on disk was admitted, after its
\* ledger lookup had hit the fault
C17_Witness ==
    /\ lastop.op = "admission_fault"
    /\ lastop.url \in resumable
    /\ last.tier = "admitted"
    /\ lastop.url \in last.us

\* C18: a row carries a file_size only while its status is completed.
C18_SizeOnlyWhenCompleted ==
    \A h \in DOMAIN ledger : ledger[h].file_size # "NULL" => ledger[h].status = "completed"

\* C19: cleanup_missing_files demotes exactly the completed rows whose file
\* is not on disk, returns their number and leaves the other rows alone;
\* right after it no completed row lacks an existing file.
CleanupStep == lastop'.op = "cleanup" /\ (lastop' # lastop \/ ledger' # ledger)

FileGone(row) == row.file_path = NULL \/ row.file_path \notin disk

C19_SweepMissing ==
    [][CleanupStep =>
        LET gone == {h \in DOMAIN ledger :
                        ledger[h].status = "completed" /\ FileGone(ledger[h])}
        IN  /\ DOMAIN ledger' = DOMAIN ledger
            /\ \A h \in gone : ledger'[h] = [ledger[h] EXCEPT !.status = "missing_file"]
            /\ \A h \in DOMAIN ledger \ gone : ledger'[h] = ledger[h]
            /\ lastop'.n = Cardinality(gone)
            /\ \A h \in DOMAIN ledger' :
                    ledger'[h].status = "completed" => ~FileGone(ledger'[h])]_vars

\* C20: a URL whose job ended failed or error and was released from
\* downloading_urls is not rejected as seen-this-run when it is submitted
\* again.
FailedAndReleased(u) ==
    /\ admitted[u] >= 1
    /\ u \notin downloading_urls
    /\ \A k \in JobsOf(u) : jobs[k].st = "done" /\ jobs[k].result \in {"failure", "error"}

C20_RetryAfterFailure ==
    [][(last' # last /\ last'.tier = "session") =>
            ~\E u \in last'.us : FailedAndReleased(u)]_vars

\* the record of a job's URL in the ledger
RowOf(k) == ledger[get_url_hash(jobs[k].url)]
Ended(k) == k \in 1..Len(jobs) /\ jobs[k].st \in {"callback", "done"}

\* C21: when the Fetch Executor runs into its timeout, the status of the
\* job's record in the ledger is error (and not failed, the status of a
\* non-zero exit code or an empty output).
C21_TimeoutRecordedAsError ==
    \A k \in 1..Len(jobs) :
        (Ended(k) /\ jobs[k].outcome = "timeout" /\ HasRow(ledger, jobs[k].url)) =>
            RowOf(k).status = "error"

\* C22: every job that is executed, however its fetch ends, comes to its
\* release; the release takes the job's URL out of downloading_urls and
\* lowers active_downloads by one, and nothing else lowers the count: it is
\* lowered once for each job.
DoneJobs == {k \in 1..Len(jobs) : jobs[k].st = "done"}
ReleaseStep(k) == k \in 1..Len(jobs) /\ jobs[k].st # "done" /\ jobs'[k].st = "done"

C22_AlwaysRelease ==
    /\ \A k \in 1..MaxJobs : (k \in Fetching) ~> (k \in DoneJobs)
    /\ [][\A k \in 1..MaxJobs : ReleaseStep(k) =>
              /\ jobs[k].url \notin downloading_urls'
              /\ active_downloads' = active_downloads - 1]_vars
    /\ [](active_downloads = 0 - Cardinality(DoneJobs))

\* a job whose fetch ran into the timeout and a job whose move raised have
\* both been released
C22_Witness ==
    /\ \E k \in DoneJobs : jobs[k].outcome = "timeout"
    /\ \E k \in DoneJobs : jobs[k].outcome = "raised"
    /\ \A k \in DoneJobs : jobs[k].url \notin downloading_urls
    /\ active_downloads = 0 - Cardinality(DoneJobs)

\* C23: a call of close_spider returns in the end, also when a job that is
\* in flight never completes; the drain moves from RUNNING to DRAINING
\* (shutdown_notified set) to STOPPED (close_spider has returned) and never
\* back, and shutdown_notified, once set, stays set.
Phase == IF drain.pc = "stopped" THEN 2 ELSE IF shutdown_notified THEN 1 ELSE 0

C23_DrainTerminates ==
    /\ (drain.pc # "running") ~> (drain.pc = "stopped")
    /\ [][Phase' >= Phase]_vars
    /\ [][shutdown_notified => shutdown_notified']_vars
    /\ [](drain.pc = "stopped" => shutdown_notified)

\* close_spider has returned after its wait timed out, while a job is still
\* fetching
C23_Witness ==
    /\ drain.pc = "stopped"
    /\ drain.timed_out
    /\ Fetching # {}

\* C24: when close_spider has found jobs active and is about to wait or is
\* waiting on downloads_done, the release of the last job that is still
\* unfinished wakes it: the caller is not left blocked until the timeout.
C24_NoLostWakeup ==
    [][(drain.pc \in {"prewait", "waiting"} /\ Unfinished # {} /\ Unfinished' = {})
          => drain'.pc = "woken"]_vars

\* C25: whenever close_spider has returned, the sweep of the temp files and
\* the release of the pool have been performed.
C25_CleanupOnEveryPath == drain.pc = "stopped" => (drain.swept /\ pool_shutdown)

\* C26: after a fetch that succeeded, the temp file has been moved to the
\* final path, the record of the job's URL in the ledger is completed with
\* that final path and the size, and the job's title and URL are in the
\* exclusion sets; the ledger shows a job completed only when its file is at
\* the final path.
Succeeded(k) == Ended(k) /\ jobs[k].outcome = "ok"

C26_SuccessPath ==
    \A k \in 1..Len(jobs) :
        /\ Succeeded(k) =>
              /\ jobs[k].final \in disk
              /\ jobs[k].temp \notin temps
              /\ HasRow(ledger, jobs[k].url)
              /\ RowOf(k).status = "completed"
              /\ RowOf(k).file_path = jobs[k].final
              /\ RowOf(k).file_size = "size"
              /\ jobs[k].title \in excluded_titles
              /\ jobs[k].url \in processed_urls
        /\ (jobs[k].st # "queued" /\ CompletedRow(ledger, jobs[k].url)) =>
              RowOf(k).file_path \in disk

\* C27: when a fetch fails (non-zero exit code or empty output), the status
\* of the job's record in the ledger becomes failed, every temp file stays,
\* no final file appears and the exclusion sets are left as they are.
FinishStep(k, outcomes) ==
    /\ k \in Fetching
    /\ jobs'[k].st = "callback"
    /\ jobs'[k].outcome \in outcomes

C27_FailurePathFrame ==
    [][\A k \in 1..MaxJobs : FinishStep(k, {"failed", "empty"}) =>
          /\ HasRow(ledger', jobs[k].url)
          /\ ledger'[get_url_hash(jobs[k].url)].status = "failed"
          /\ temps \subseteq temps'
          /\ disk' = disk
          /\ excluded_titles' = excluded_titles
          /\ processed_urls' = processed_urls]_vars

\* C28: an exception raised inside a job (by getsize or by the move) is
\* caught by the job: the status of the job's record in the ledger becomes
\* error, the job returns and is released, and the pool goes on running the
\* other jobs.
C28_ExceptionContained ==
    [][\A k \in 1..MaxJobs : FinishStep(k, {"raised"}) =>
          /\ HasRow(ledger', jobs[k].url)
          /\ ledger'[get_url_hash(jobs[k].url)].status = "error"
          /\ jobs'[k].result = "error"
          /\ pool_shutdown' = pool_shutdown
          /\ \A j \in 1..Len(jobs) : j # k => jobs'[j] = jobs[j]]_vars

\* C29: when the fetch of a job fails, times out or raises, and when that
\* job is released, every other job that is not yet released keeps its
\* place in downloading_urls, its record in the ledger, its temp file and
\* its own state and outcome.
Unsuccessful == {"failed", "empty", "timeout", "raised"}

RecordOf(L, url) == IF HasRow(L, url) THEN L[get_url_hash(url)] ELSE NULL

StepOfFailing(k) ==
    \/ FinishStep(k, Unsuccessful)
    \/ ReleaseStep(k) /\ jobs[k].outcome \in Unsuccessful

C29_SiblingIsolation ==
    [][\A k \in 1..MaxJobs : StepOfFailing(k) =>
          \A j \in Unfinished \ {k} :
              /\ jobs'[j] = jobs[j]
              /\ (jobs[j].url \in downloading_urls') = (jobs[j].url \in downloading_urls)
              /\ RecordOf(ledger', jobs[j].url) = RecordOf(ledger, jobs[j].url)
              /\ (jobs[j].temp \in temps') = (jobs[j].temp \in temps)
              /\ (jobs[j].final \in disk') = (jobs[j].final \in disk)]_vars

\* one job has timed out and is released; another has its file at the final
\* path and is still in flight
C29_Witness ==
    \E k, j \in 1..Len(jobs) :
        /\ jobs[k].outcome = "timeout" /\ jobs[k].st = "done"
        /\ jobs[j].outcome = "ok"
        /\ drain.pc = "running"
        /\ jobs[j].url \in downloading_urls
        /\ jobs[k].temp \in temps
        /\ jobs[j].final \in disk

\* C30: no two jobs are moved to the same final path: of two jobs whose
\* fetch succeeded, each has its own final file, also when they carry the
\* same title and ran at the same time.
C30_FinalPathUnique ==
    \A j, k \in 1..Len(jobs) :
        (j # k /\ Succeeded(j) /\ Succeeded(k)) => jobs[j].final # jobs[k].final

\* C31: every URL in downloading_urls has a record in the ledger with the
\* status downloading and a temp path, from its admission to its release;
\* the update at the end of a job finds a record.
C31_AdmissionCreatesRecord ==
    /\ \A u \in downloading_urls :
          /\ HasRow(ledger, u)
          /\ ledger[get_url_hash(u)].temp_file_path # NULL
          /\ (\A k \in JobsOf(u) : ~Ended(k)) => ledger[get_url_hash(u)].status = "downloading"
    /\ \A k \in 1..Len(jobs) : Ended(k) => HasRow(ledger, jobs[k].url)

\* C32: active_downloads is never negative and is the number of jobs handed
\* to the pool that are not yet released, which is the size of
\* downloading_urls whenever no submission is between its marking and its
\* hand-over.
C32_ActiveCount ==
    /\ active_downloads >= 0
    /\ active_downloads = Cardinality(Unfinished)
    /\ (\A t \in DOMAIN sub : sub[t].pc = "idle") =>
          active_downloads = Cardinality(downloading_urls)

\* C33: the record of a URL becomes completed only in the step in which a
\* job of that URL ends after the Fetch Executor returned exit code 0 and
\* left a non-empty temp file, which is then at the final path; a job whose
\* fetch returned exit code 0 without a non-empty temp file sets its record
\* to failed.
BecomesCompleted(u) == ~CompletedRow(ledger, u) /\ CompletedRow(ledger', u)

C33_CompletedOnlyVerified ==
    [][/\ \A u \in URLS : BecomesCompleted(u) =>
             \E k \in JobsOf(u) :
                 /\ FinishStep(k, Outcomes)
                 /\ ExitCode(jobs'[k].outcome) = 0
                 /\ jobs[k].temp \in TempsAfter(jobs'[k].outcome, temps, jobs[k].temp)
                 /\ jobs[k].final \in disk'
       /\ \A k \in 1..MaxJobs :
             (FinishStep(k, {"empty"}) /\ HasRow(ledger, jobs[k].url)) =>
                 ledger'[get_url_hash(jobs[k].url)].status = "failed"]_vars

\* a record the run found at its start is completed by a job of this run,
\* and its file is at the final path
C33_Witness ==
    \E k \in 1..Len(jobs) :
        /\ Succeeded(k)
        /\ CompletedRow(ledger, jobs[k].url)
        /\ RowOf(k).file_path = jobs[k].final
        /\ jobs[k].final \in disk

StartStep(k) == k \in Queued /\ jobs'[k].st = "fetching"
DistinctTemps ==
    \A j, k \in 1..Len(jobs) :
        (Started(j) /\ Started(k) /\ jobs[j].url # jobs[k].url) => jobs[j].temp # jobs[k].temp
ResumeIffTempThere ==
    [][\A k \in 1..MaxJobs : StartStep(k) => (jobs'[k].y = (jobs'[k].temp \notin temps))]_vars

----------------------------------------------------------------------------
\* C35: the sweep of close_spider (cleanup_temp_files) removes temp files
\* only: exactly the files of the temp directory that were found at the
\* start, more than 7 days old, and that no job of this run has written
\* since.  Every temp file a job of this run has written stays, the temp
\* file of a job that is still fetching stays unless it is such an old
\* file, and no final file, nor any other file outside the temp directory,
\* is touched.
SweepStep == drain.pc = "woken" /\ drain'.pc = "stopped"
Touched(p) == \E k \in 1..Len(jobs) : jobs[k].temp = p /\ (Ended(k) \/ jobs[k].wrote)

----------------------------------------------------------------------------
\* C36: when _deduplicate_urls has returned, the URLs it hands to
\* _process_single_url are stripped entries of the list, in the order of the
\* list; no URL is there twice and no two have the same URL key; each is the
\* first entry of the list with its text and with its key; and none comes
\* of an entry that is no string or is empty, so no empty URL is handed on.
Handing == {t \in 1..2 : sub[t].pc \in {"mark", "submit"}}
Usable(e) == IsStr(e) /\ Truthy(e)
FirstAt(raw, u) ==
    Min({j \in 1..Len(raw) : Usable(raw[j]) /\ strip(raw[j]) = u} \cup {Len(raw) + 1})

DedupShape(raw, kept) ==
    /\ \A i \in 1..Len(kept) :
          /\ FirstAt(raw, kept[i]) <= Len(raw)
          /\ \A j \in 1..(FirstAt(raw, kept[i]) - 1) :
                 Usable(raw[j]) => UrlKey(strip(raw[j])) # UrlKey(kept[i])
    /\ \A i, j \in 1..Len(kept) :
          /\ i < j => FirstAt(raw, kept[i]) < FirstAt(raw, kept[j])
          /\ i # j => kept[i] # kept[j] /\ UrlKey(kept[i]) # UrlKey(kept[j])

C36_ListDedup ==
    \A t \in Handing :
        /\ DedupShape(sub[t].urls, sub[t].unique)
        /\ \A i \in 1..Len(sub[t].unique) : sub[t].unique[i] # ""

\* the same without the last line: what holds of the code
C36_ShapeOnly == \A t \in Handing : DedupShape(sub[t].urls, sub[t].unique)
C36_ShapeCase ==
    \E t \in Handing :
        /\ Len(sub[t].unique) < Len(sub[t].urls)
        /\ \E j \in 1..Len(sub[t].urls) : sub[t].urls[j] # strip(sub[t].urls[j])

----------------------------------------------------------------------------
\* C37: the file of excluded titles only grows: every step leaves its lines
\* as they are and at most adds lines at the end.  What
\* _load_excluded_titles reads from it holds no empty text and no text that
\* starts with #.  And the title of every job that has succeeded, appended
\* by _append_to_excluded_list, is in the set _load_excluded_titles reads
\* from the file, as the next run will.
IsPrefix(a, b) == Len(a) <= Len(b) /\ SubSeq(b, 1, Len(a)) = a
LoadedClean ==
    \A x \in _load_excluded_titles(chigua_file) : x # "" /\ ~startswith(x, "#") /\ strip(x) = x
RoundTrip(titles) ==
    \A k \in 1..Len(jobs) :
        (Succeeded(k) /\ jobs[k].title \in titles) =>
            jobs[k].title \in _load_excluded_titles(chigua_file)

C37_ExclusionListPersists ==
    /\ [][IsPrefix(chigua_file, chigua_file')]_vars
    /\ [](LoadedClean /\ RoundTrip({"T1", "T2", "#T2"}))

\* the same for the titles that do not start with #: what holds of the code
C37_PlainTitles ==
    /\ [][IsPrefix(chigua_file, chigua_file')]_vars
    /\ [](LoadedClean /\ RoundTrip({"T1", "T2"}))
C37_PlainCase ==
    /\ Len(chigua_file) > Len(Listed) /\ IsPrefix(Listed, chigua_file)
    /\ \E k \in 1..Len(jobs) : Succeeded(k) /\ jobs[k].title = "T2"

----------------------------------------------------------------------------
----------------------------------------------------------------------------
\* C39: the threads never block each other for good.  The thread that
\* holds self.lock can always take its next step, which is the body of its
\* block or the release: it waits for nothing another thread holds.  The
\* thread in downloads_done.wait can always leave it, by the timeout.  And
\* as long as the run has not come to rest (close_spider returned, every
\* job released, no thread in process_item, the lock free) some thread can
\* take a step.
HolderSteps ==
    \/ \E t \in 1..2 :
          /\ lock.by = SubId(t)
          /\ \/ dedup_session(t) \/ dedup_db_hit(t) \/ dedup_queue(t)
             \/ process_single_url_mark(t) \/ process_single_url_submit(t)
    \/ \E k \in 1..MaxJobs : lock.by = JobId(k) /\ download_completed(k)
    \/ lock.by = DrainId /\ close_spider_check
    \/ lock.by = MonitorId /\ monitor_check
    \/ \E th \in Threads : lock_release(th)

AtRest ==
    /\ drain.pc = "stopped"
    /\ \A t \in DOMAIN sub : sub[t].pc = "idle"
    /\ \A k \in 1..Len(jobs) : jobs[k].st = "done"
    /\ lock = Free

----------------------------------------------------------------------------
\* C40: in what get_download_statistics returns, total is the sum of the
\* counts of status_stats, and valid_files is the number of completed rows
\* whose file is on disk.
RECURSIVE SumOf(_)
SumOf(f) ==
    IF DOMAIN f = {} THEN 0
    ELSE LET x == CHOOSE y \in DOMAIN f : TRUE
         IN  f[x] + SumOf([y \in DOMAIN f \ {x} |-> f[y]])

CompletedOnDisk ==
    {h \in RowsWith(ledger, "completed") :
        ledger[h].file_path # NULL /\ ledger[h].file_path \in disk}

StatsAsked == lastop.op = "stats" /\ lastop.stats = get_download_statistics(ledger)

C40_Statistics ==
    StatsAsked =>
        /\ lastop.stats.total = SumOf(lastop.stats.status_stats)
        /\ lastop.stats.valid_files = Cardinality(CompletedOnDisk)

\* the same with valid_files as the code counts it: what holds of the code
C40_AsCounted ==
    StatsAsked =>
        /\ lastop.stats.total = SumOf(lastop.stats.status_stats)
        /\ lastop.stats.valid_files >= Cardinality(CompletedOnDisk)
        /\ lastop.stats.valid_files <= Cardinality(RowsWith(ledger, "completed"))
C40_AsCountedCase ==
    /\ StatsAsked
    /\ lastop.stats.total = 2
    /\ Cardinality(DOMAIN lastop.stats.status_stats) = 2
    /\ lastop.stats.valid_files = 1
    /\ Cardinality(CompletedOnDisk) = 1

====
